---- MODULE Spec2Model ----
(***************************************************************************)
(* Model of code/loan_calc.py (kconstable/finance-tools): the period       *)
(* generator get_periods, the rate converter get_georeturn, the            *)
(* amortization engine get_amortization, the scenario store                *)
(* save_scenario and the rent-vs-own comparison get_rent_vs_own, and of    *)
(* the callback plot_amortization of code/layout.py, which keeps the       *)
(* prepayment and scenario stores of the page.                             *)
(*                                                                         *)
(* Representation.                                                         *)
(*  - A date is its day number, day 0 being 2024-01-01.  Every timestamp   *)
(*    the program builds is a midnight (start_date is a date), so the      *)
(*    .dt.date / datetime64 conversions of lines 221, 577-578, 584-585     *)
(*    and 591-592 map a day number to itself.                              *)
(*  - Money is an integer number of cents and the money inputs are whole   *)
(*    dollars, so value * re_fees / 100 is exact.  The rent, maintenance   *)
(*    and tax inputs are multiples of 26 and 312 cents, so the divisions   *)
(*    of lines 395-407 are exact.  Floating-point rounding is not          *)
(*    modelled.                                                            *)
(*  - An annual percentage rate is represented by the per-day rate it      *)
(*    converts to: the input k stands for the annual rate R with           *)
(*    1 + R/100 = (1 + k) ^ 365.  get_georeturn keeps the root it was      *)
(*    asked for; PerDay reads the value of a 365th root.                   *)
(*  - The horizon is given by its length in days, days = yrs * 365         *)
(*    (line 59).                                                           *)
(*  - A data frame is the sequence of its rows; row idx of the code is     *)
(*    element idx + 1.  A call returns a record whose status is "ok" or    *)
(*    the name of the exception it raised.                                 *)
(***************************************************************************)
EXTENDS Integers, Sequences, FiniteSets, TLC

VARIABLES args, prepayments, scenarios, res, saved, rvo, ui

vars == <<args, prepayments, scenarios, res, saved, rvo, ui>>

----------------------------------------------------------------------------
(* Bounds of the exploration *)

MaxDays == 15
MaxPrepay == 1
MaxClicks == 1
MaxEntries == 2

(* Program constants *)

Percent == 100
Dollar == Percent
MonthsPerYear == 12
SemiMonthsPerYear == 24
BiweeksPerYear == 26
AccelStep == 14
MidMonth == 15

(* No row / no value *)
NaT == 0 - 1
None == [isNone |-> TRUE]
Some(v) == [isNone |-> FALSE, val |-> v]

----------------------------------------------------------------------------
(* Calendar of pd.date_range: 2024-01-01 is day 0 *)

MonthLengths == <<31, 29, 31, 30>>

RECURSIVE MonthStart(_)
MonthStart(m) == IF m = 1 THEN 0 ELSE MonthStart(m - 1) + MonthLengths[m - 1]

MonthOf(d) == CHOOSE m \in 1..Len(MonthLengths) :
                 MonthStart(m) <= d /\ d < MonthStart(m) + MonthLengths[m]

DayOfMonth(d) == d - MonthStart(MonthOf(d)) + 1

IsMonthEnd(d) == DayOfMonth(d) = MonthLengths[MonthOf(d)]

OnOffset(d, freq) ==
    CASE freq = "D"  -> TRUE
      [] freq = "M"  -> IsMonthEnd(d)
      [] freq = "SM" -> DayOfMonth(d) = MidMonth \/ IsMonthEnd(d)

RECURSIVE date_range(_, _, _)
date_range(start, end, freq) ==
    IF start > end THEN <<>>
    ELSE (IF OnOffset(start, freq) THEN <<start>> ELSE <<>>)
            \o date_range(start + 1, end, freq)

RECURSIVE EveryTwoWeeks(_, _)
EveryTwoWeeks(dt, end_date) ==
    IF dt + AccelStep <= end_date
    THEN <<dt + AccelStep>> \o EveryTwoWeeks(dt + AccelStep, end_date)
    ELSE <<>>

(* get_periods: the dates from start_date to start_date + days, by frequency *)
get_periods(start_date, days, frequency) ==
    LET end_date == start_date + days
    IN  CASE frequency = "d" ->
               [status |-> "ok", printed |-> "", rng |-> date_range(start_date, end_date, "D")]
          [] frequency = "m" ->
               [status |-> "ok", printed |-> "", rng |-> date_range(start_date, end_date, "M")]
          [] frequency = "b" ->
               [status |-> "ok", printed |-> "", rng |-> date_range(start_date, end_date, "SM")]
          [] frequency = "a" ->
               [status |-> "ok", printed |-> "", rng |-> EveryTwoWeeks(start_date, end_date)]
          [] OTHER ->
               [status |-> "ok", printed |-> "unknown frequency", rng |-> <<>>]

InRng(d, rng) == \E k \in 1..Len(rng) : rng[k] = d

----------------------------------------------------------------------------
(* get_georeturn: annual rate to the rate of one period *)

(* a converter that also knows the bi-weekly code *)
get_georeturn_Biweekly(rate, frequency) ==
    CASE frequency = "m" ->
           [status |-> "ok", isNone |-> FALSE, printed |-> "", rate |-> rate, root |-> 12]
      [] frequency = "b" ->
           [status |-> "ok", isNone |-> FALSE, printed |-> "", rate |-> rate, root |-> 24]
      [] frequency = "d" ->
           [status |-> "ok", isNone |-> FALSE, printed |-> "", rate |-> rate, root |-> 365]
      [] OTHER ->
           [status |-> "ok", isNone |-> TRUE, printed |-> "frequency not recongized"]

get_georeturn(rate, frequency) ==
    CASE frequency = "m" ->
           [status |-> "ok", isNone |-> FALSE, printed |-> "", rate |-> rate, root |-> 12]
      [] frequency = "d" ->
           [status |-> "ok", isNone |-> FALSE, printed |-> "", rate |-> rate, root |-> 365]
      [] OTHER ->
           [status |-> "ok", isNone |-> TRUE, printed |-> "frequency not recongized"]

(* the number a 365th root stands for *)
PerDay(g) == CASE g.root = 365 -> g.rate

----------------------------------------------------------------------------
(* get_amortization *)

(* lines 139-149: one row per day, every amount zero *)
NewRow(d) ==
    [date |-> d, pay_period |-> FALSE, start |-> 0, payment |-> 0,
     prepayment |-> 0, interest |-> 0, end |-> 0, value |-> 0, equity |-> 0,
     scen |-> <<>>]

RECURSIVE NewFrame(_)
NewFrame(date_rng) ==
    IF date_rng = <<>> THEN <<>>
    ELSE <<NewRow(Head(date_rng))>> \o NewFrame(Tail(date_rng))

(* the prepayment written into the payment column, which the loop          *)
(* overwrites                                                              *)
RECURSIVE add_prepayments_Lost(_, _, _)
add_prepayments_Lost(df, pps, k) ==
    IF k > Len(pps) THEN [status |-> "ok", df |-> df]
    ELSE LET hits == {i \in 1..Len(df) : df[i].date = pps[k].date}
         IN  IF hits = {} THEN [status |-> "IndexError", df |-> df]
             ELSE LET idx == CHOOSE i \in hits : \A j \in hits : i <= j
                  IN  add_prepayments_Lost(
                          [df EXCEPT ![idx].payment = pps[k].value],
                          pps, k + 1)

(* lines 152-159: write each prepayment into the row of its date; the      *)
(* [0] of line 156 raises IndexError when no row has that date             *)
RECURSIVE add_prepayments(_, _, _)
add_prepayments(df, pps, k) ==
    IF k > Len(pps) THEN [status |-> "ok", df |-> df]
    ELSE LET hits == {i \in 1..Len(df) : df[i].date = pps[k].date}
         IN  IF hits = {} THEN [status |-> "IndexError", df |-> df]
             ELSE LET idx == CHOOSE i \in hits : \A j \in hits : i <= j
                  IN  add_prepayments(
                          [df EXCEPT ![idx].prepayment = pps[k].value],
                          pps, k + 1)

(* line 192 *)
Equity(value, end, re_fees) == (value - end) - ((value * re_fees) \div Percent)

(* the row of a period that leaves a balance, without line 191 *)
OpenRow_NoValue(row, pay, int_pay, end, value, re_fees) ==
    [row EXCEPT !.payment = pay, !.interest = int_pay, !.end = end,
                !.equity = Equity(value, end, re_fees)]

(* lines 187-192: the row of a period that leaves a balance *)
OpenRow(row, pay, int_pay, end, value, re_fees) ==
    [row EXCEPT !.payment = pay, !.interest = int_pay, !.end = end,
                !.value = value, !.equity = Equity(value, end, re_fees)]

(* the pay-off row without lines 204-205 *)
PaidRow_Unclamped(row, end, value, re_fees) ==
    [row EXCEPT !.payment = row.start, !.interest = 0, !.end = end,
                !.value = value, !.equity = Equity(value, end, re_fees)]

(* lines 203-207: the row that pays the mortgage off; end is the balance   *)
(* computed at line 180, not the 0 written at line 205                     *)
PaidRow(row, end, value, re_fees) ==
    [row EXCEPT !.payment = row.start, !.interest = 0, !.end = 0,
                !.value = value, !.equity = Equity(value, end, re_fees)]

(* the carry of line 193 left out *)
Carry_Dropped(df, i, end) ==
    IF i < Len(df) THEN df
    ELSE Append(df, [NewRow(NaT) EXCEPT !.start = end])

(* line 193: df.at[idx + 1, 'start'] = end; past the last row the write    *)
(* adds a row that has no date                                             *)
Carry(df, i, end) ==
    IF i < Len(df) THEN [df EXCEPT ![i + 1].start = end]
    ELSE Append(df, [NewRow(NaT) EXCEPT !.start = end])

(* the loop without the break of line 214 *)
RECURSIVE amortize_NoBreak(_, _, _, _)
amortize_NoBreak(df, i, value0, c) ==
    LET row == df[i]
        pay == IF InRng(row.date, c.pay_rng) THEN c.payment ELSE 0
        int_pay == (row.start - pay - row.prepayment) * c.ir
        end == row.start + int_pay - pay - row.prepayment
        value == value0 * (1 + c.app)
        paid == end <= 0
        df2 == IF paid THEN [df EXCEPT ![i] = PaidRow(row, end, value, c.re_fees)]
               ELSE Carry([df EXCEPT ![i] =
                             OpenRow(row, pay, int_pay, end, value, c.re_fees)],
                          i, end)
    IN  IF i = c.n
        THEN [df |-> df2, end_date |-> row.date, paid |-> paid]
        ELSE LET rest == amortize_NoBreak(df2, i + 1, value, c)
             IN  IF paid THEN [rest EXCEPT !.end_date = row.date, !.paid = TRUE]
                 ELSE rest

(* lines 162-214: the loop over the rows, from row i on *)
RECURSIVE amortize(_, _, _, _)
amortize(df, i, value0, c) ==
    LET row == df[i]
        pay == IF InRng(row.date, c.pay_rng) THEN c.payment ELSE 0
        int_pay == (row.start - pay - row.prepayment) * c.ir
        end == row.start + int_pay - pay - row.prepayment
        value == value0 * (1 + c.app)
    IN  IF end > 0
        THEN LET df2 == Carry([df EXCEPT ![i] =
                                 OpenRow(row, pay, int_pay, end, value, c.re_fees)],
                              i, end)
             IN  IF i = c.n
                 THEN [df |-> df2, end_date |-> row.date, paid |-> FALSE]
                 ELSE amortize(df2, i + 1, value, c)
        ELSE [df |-> [df EXCEPT ![i] = PaidRow(row, end, value, c.re_fees)],
              end_date |-> row.date, paid |-> TRUE]

(* the row of a frame that carries the date d *)
Lookup(frame, d) ==
    frame[CHOOSE k \in 1..Len(frame) : frame[k].date = d]

HasRow(frame, d) == \E k \in 1..Len(frame) : frame[k].date = d

(* line 224: inner join by date of the schedule with the scenario frame,   *)
(* in the order of the schedule                                            *)
RECURSIVE join_frame(_, _)
join_frame(df, scenarios_df) ==
    IF df = <<>> THEN <<>>
    ELSE LET row == Head(df)
         IN  (IF HasRow(scenarios_df, row.date)
              THEN <<[row EXCEPT !.scen = Lookup(scenarios_df, row.date).cols]>>
              ELSE <<>>)
                \o join_frame(Tail(df), scenarios_df)

(* lines 217-226; an empty list of records makes a frame without a date    *)
(* column and line 221 raises KeyError                                     *)
join_scenarios(df, scens) ==
    IF scens.isNone THEN [status |-> "ok", df |-> df]
    ELSE IF scens.val = <<>> THEN [status |-> "KeyError", df |-> <<>>]
    ELSE [status |-> "ok", df |-> join_frame(df, scens.val)]

(* line 230 *)
HasDate(row) == row.date # NaT

get_amortization(a, prepays, scens) ==
    LET ir == PerDay(get_georeturn(a.int_rate, "d"))
        app == PerDay(get_georeturn(a.app_rate, "d"))
        mortgage == a.price - a.deposit
        date_rng == get_periods(a.start_date, a.days, "d").rng
        pay_rng == get_periods(a.start_date, a.days, a.frequency).rng
        df0 == NewFrame(date_rng)
        pre == IF prepays.isNone THEN [status |-> "ok", df |-> df0]
               ELSE add_prepayments(df0, prepays.val, 1)
        c == [payment |-> a.payment, ir |-> ir, app |-> app,
              re_fees |-> a.re_fees, pay_rng |-> pay_rng, n |-> Len(df0)]
        run == amortize([pre.df EXCEPT ![1].start = mortgage], 1, a.price, c)
        joined == join_scenarios(run.df, scens)
        printed == get_periods(a.start_date, a.days, a.frequency).printed
    IN  IF pre.status # "ok"
        THEN [called |-> TRUE, status |-> pre.status, df |-> <<>>,
              end_date |-> NaT, paid |-> FALSE, printed |-> printed]
        ELSE IF joined.status # "ok"
        THEN [called |-> TRUE, status |-> joined.status, df |-> <<>>,
              end_date |-> NaT, paid |-> FALSE, printed |-> printed]
        ELSE [called |-> TRUE, status |-> "ok", df |-> SelectSeq(joined.df, HasDate),
              end_date |-> run.end_date, paid |-> run.paid, printed |-> printed]

----------------------------------------------------------------------------
(* save_scenario *)

Columns(records) == IF records = <<>> THEN {} ELSE DOMAIN records[1].cols

(* the start column saved in place of the end column *)
RECURSIVE ScenarioFrame_Start(_, _)
ScenarioFrame_Start(df, scen_name) ==
    IF df = <<>> THEN <<>>
    ELSE <<[date |-> Head(df).date, cols |-> (scen_name :> Head(df).start)]>>
            \o ScenarioFrame_Start(Tail(df), scen_name)

(* lines 575-578: the date and end columns, end renamed *)
RECURSIVE ScenarioFrame(_, _)
ScenarioFrame(df, scen_name) ==
    IF df = <<>> THEN <<>>
    ELSE <<[date |-> Head(df).date, cols |-> (scen_name :> Head(df).end)]>>
            \o ScenarioFrame(Tail(df), scen_name)

(* line 588: inner join by date of the stored frame with the new one, in   *)
(* the order of the stored frame                                           *)
RECURSIVE join_store(_, _)
join_store(df_old, df_new) ==
    IF df_old = <<>> THEN <<>>
    ELSE LET rec == Head(df_old)
         IN  (IF HasRow(df_new, rec.date)
              THEN <<[rec EXCEPT !.cols =
                         rec.cols @@ Lookup(df_new, rec.date).cols]>>
              ELSE <<>>)
                \o join_store(Tail(df_old), df_new)

(* an empty list of records makes a frame without a date column and line   *)
(* 584 raises KeyError; a column of the same name in both frames makes     *)
(* the join of line 588 raise ValueError                                   *)
save_scenario(df, scenario_name, scens) ==
    LET scen_name == "scenario-" \o scenario_name
        df_new == ScenarioFrame(df, scen_name)
    IN  IF scens.isNone THEN [status |-> "ok", store |-> df_new]
        ELSE IF scens.val = <<>> THEN [status |-> "KeyError", store |-> <<>>]
        ELSE IF scen_name \in Columns(scens.val)
        THEN [status |-> "ValueError", store |-> <<>>]
        ELSE [status |-> "ok", store |-> join_store(scens.val, df_new)]

----------------------------------------------------------------------------
(* get_rent_vs_own *)

(* line 382 *)
UpTo(df, end_date) == SelectSeq(df, LAMBDA row : row.date <= end_date)

(* lines 385-388: the investment columns, created as integer columns *)
InvestRow(row) ==
    [date |-> row.date, pay_period |-> row.pay_period, start |-> row.start,
     payment |-> row.payment, prepayment |-> row.prepayment,
     interest |-> row.interest, end |-> row.end, value |-> row.value,
     equity |-> row.equity,
     invest_start |-> 0, invest_end |-> 0, cross_over_tmp |-> "r",
     cross_over |-> 0]

RECURSIVE WithInvestColumns(_)
WithInvestColumns(df) ==
    IF df = <<>> THEN <<>>
    ELSE <<InvestRow(Head(df))>> \o WithInvestColumns(Tail(df))

(* lines 393-407: tax, maintenance and rent of one payment period; every   *)
(* code other than m and b takes the accelerated bi-weekly branch          *)
PeriodAmounts(frequency, monthly_rent, monthly_main, annual_tax) ==
    CASE frequency = "m" ->
           [tax |-> annual_tax \div MonthsPerYear,
            main |-> monthly_main,
            rent |-> monthly_rent]
      [] frequency = "b" ->
           [tax |-> annual_tax \div SemiMonthsPerYear,
            main |-> monthly_main \div 2,
            rent |-> monthly_rent \div 2]
      [] OTHER ->
           [tax |-> annual_tax \div BiweeksPerYear,
            main |-> (monthly_main * MonthsPerYear) \div BiweeksPerYear,
            rent |-> (monthly_rent * MonthsPerYear) \div BiweeksPerYear]

(* What df.at[idx, col] = x leaves in a column created as integers (lines  *)
(* 385-386) depends on the pandas the program runs on: a whole amount is   *)
(* stored as it is; an amount with a fraction is cut to its integer part   *)
(* (pandas before 1.5 assigns into the integer array), kept (1.5 to 2.x    *)
(* turn the column into floats) or refused with TypeError (3.x).           *)
Builds == {"truncate", "upcast", "raise"}

IsWhole(x) == x % Dollar = 0

Truncated(x) ==
    IF x >= 0 THEN (x \div Dollar) * Dollar
    ELSE 0 - (((0 - x) \div Dollar) * Dollar)

Stored(x, build) ==
    IF IsWhole(x) \/ build = "upcast" THEN x ELSE Truncated(x)

Refused(x, build) == build = "raise" /\ ~IsWhole(x)

(* lines 422, 429, 434: df.at[idx + 1, 'invest_start'] = cap_gains; past   *)
(* the last row the write adds a row that has no date                      *)
CarryInvest(df, i, cap_gains, build) ==
    IF i < Len(df)
    THEN [df EXCEPT ![i + 1].invest_start = Stored(cap_gains, build)]
    ELSE Append(df, [InvestRow(NewRow(NaT)) EXCEPT !.invest_start = cap_gains])

(* lines 436-444 with the flag set on every row where the investment       *)
(* account is above                                                        *)
Mark_EveryRow(df, i) ==
    LET tmp == IF df[i].invest_end > df[i].equity THEN "r" ELSE "o"
    IN  [df EXCEPT ![i].cross_over_tmp = tmp,
                   ![i].cross_over = IF tmp = "r" THEN 1 ELSE 0]

(* lines 436-444: which of the two series is above on this row, and the    *)
(* flag when that differs from the row before                              *)
Mark(df, i) ==
    LET tmp == IF df[i].invest_end > df[i].equity THEN "r" ELSE "o"
        df2 == [df EXCEPT ![i].cross_over_tmp = tmp]
    IN  IF i > 1 /\ df2[i - 1].cross_over_tmp # tmp
        THEN [df2 EXCEPT ![i].cross_over = 1]
        ELSE df2

(* lines 410-444: the loop over the rows, from row i on *)
RECURSIVE invest_loop(_, _, _)
invest_loop(df, i, c) ==
    IF i > c.n THEN [status |-> "ok", df |-> df]
    ELSE
      LET row == df[i]
          branch == IF i = 1 THEN "first"
                    ELSE IF row.payment > 0 THEN "payment"
                    ELSE IF row.payment = 0 THEN "compound"
                    ELSE "none"
          invest == CASE branch = "first" -> c.deposit
                      [] branch = "payment" ->
                           row.invest_start + c.tax + c.main
                              + (c.payment - c.rent)
                      [] OTHER -> row.invest_start
          cap_gains == invest * (1 + c.inv)
          df1 == IF branch = "first"
                 THEN [df EXCEPT ![i].invest_start = Stored(c.deposit, c.build)]
                 ELSE df
          df2 == IF branch = "none" THEN df1
                 ELSE CarryInvest(
                          [df1 EXCEPT ![i].invest_end = Stored(cap_gains, c.build)],
                          i, cap_gains, c.build)
      IN  IF (branch = "first" /\ Refused(c.deposit, c.build))
             \/ (branch # "none" /\ Refused(cap_gains, c.build))
          THEN [status |-> "TypeError", df |-> <<>>]
          ELSE invest_loop(Mark(df2, i), i + 1, c)

(* line 447 dropping the flag as well *)
DropTmp_Flag(row) ==
    [date |-> row.date, pay_period |-> row.pay_period, start |-> row.start,
     payment |-> row.payment, prepayment |-> row.prepayment,
     interest |-> row.interest, end |-> row.end, value |-> row.value,
     equity |-> row.equity,
     invest_start |-> row.invest_start, invest_end |-> row.invest_end,
     cross_over |-> 0]

(* line 447 *)
DropTmp(row) ==
    [date |-> row.date, pay_period |-> row.pay_period, start |-> row.start,
     payment |-> row.payment, prepayment |-> row.prepayment,
     interest |-> row.interest, end |-> row.end, value |-> row.value,
     equity |-> row.equity,
     invest_start |-> row.invest_start, invest_end |-> row.invest_end,
     cross_over |-> row.cross_over]

(* lines 447-452 *)
RECURSIVE Returned(_)
Returned(df) ==
    IF df = <<>> THEN <<>>
    ELSE (IF HasDate(Head(df)) THEN <<DropTmp(Head(df))>> ELSE <<>>)
            \o Returned(Tail(df))

get_rent_vs_own(a, x) ==
    LET am == get_amortization(a, None, None)
        df0 == WithInvestColumns(UpTo(am.df, am.end_date))
        inv == PerDay(get_georeturn(x.inv_rate, "d"))
        per == PeriodAmounts(a.frequency, x.monthly_rent, x.monthly_main,
                             x.annual_tax)
        c == [deposit |-> a.deposit, payment |-> a.payment, inv |-> inv,
              tax |-> per.tax, main |-> per.main, rent |-> per.rent,
              build |-> x.build, n |-> Len(df0)]
        run == invest_loop(df0, 1, c)
    IN  IF run.status # "ok"
        THEN [called |-> TRUE, status |-> run.status, df |-> <<>>,
              end_date |-> am.end_date, x |-> x]
        ELSE [called |-> TRUE, status |-> "ok", df |-> Returned(run.df),
              end_date |-> am.end_date, x |-> x]

----------------------------------------------------------------------------
(* The callers: inputs of a session and the calls it makes *)

StartDates == {14, 15}
Horizons == {0, 2, MaxDays}
Prices == {4 * Percent}
Deposits == {1 * Percent, 2 * Percent}
Payments == {1 * Percent, 2 * Percent}
Rates == {0, 1}
Frequencies == {"m", "b", "a", "d", "w"}
Fees == {0, 5}
PrepayDates == {13, 14, 16, 30}
PrepayValues == {1 * Percent, 3 * Percent}
Names == {"a", "b"}

ArgSpace ==
    [start_date : StartDates, days : Horizons, price : Prices,
     deposit : Deposits, payment : Payments, int_rate : Rates,
     app_rate : Rates, frequency : Frequencies, re_fees : Fees]

(* the sessions in which scenarios are saved *)
StoreArgs ==
    {a \in ArgSpace : a.frequency = "d" /\ a.int_rate = 0 /\ a.app_rate = 1
                        /\ a.re_fees = 5}

NoRun == [called |-> FALSE, status |-> "none", df |-> <<>>, end_date |-> NaT,
          paid |-> FALSE, printed |-> ""]

NoSave == [called |-> FALSE, status |-> "none", name |-> "", df |-> <<>>,
           prior |-> None, args |-> <<>>]

NoPage == [loaded |-> FALSE, n_prepay |-> 0, n_scenario |-> 0,
           changed_id |-> "", raised |-> FALSE, gained |-> FALSE,
           since_reset |-> FALSE]

NoCompare == [called |-> FALSE, status |-> "none", df |-> <<>>,
              end_date |-> NaT, x |-> <<>>]

Init ==
    /\ args \in ArgSpace
    /\ prepayments = None
    /\ scenarios = None
    /\ res = NoRun
    /\ saved = NoSave
    /\ rvo = NoCompare
    /\ ui = NoPage

(* a call of get_amortization on the current inputs *)
Amortize ==
    /\ ~res.called
    /\ res' = get_amortization(args, prepayments, scenarios)
    /\ UNCHANGED <<args, prepayments, scenarios, saved, rvo, ui>>

(* the caller appends a prepayment to its list (layout.py lines 260-268) *)
AddPrepayment(d, v) ==
    /\ scenarios.isNone /\ ~saved.called
    /\ LET old == IF prepayments.isNone THEN <<>> ELSE prepayments.val
       IN  /\ Len(old) < MaxPrepay
           /\ prepayments' = Some(Append(old, [date |-> d, value |-> v]))
    /\ res' = NoRun
    /\ UNCHANGED <<args, scenarios, saved, rvo, ui>>

(* the caller saves the schedule it last got (layout.py lines 289-295) *)
SaveScenario(n) ==
    /\ args \in StoreArgs
    /\ res.called /\ res.status = "ok"
    /\ LET r == save_scenario(res.df, n, scenarios)
       IN  /\ saved' = [called |-> TRUE, status |-> r.status, name |-> n,
                        df |-> res.df, prior |-> scenarios, args |-> args]
           /\ scenarios' = IF r.status = "ok" THEN Some(r.store) ELSE scenarios
    /\ res' = NoRun
    /\ UNCHANGED <<args, prepayments, rvo, ui>>

(* a later session: another start date and horizon *)
Restart(s, d) ==
    /\ args \in StoreArgs
    /\ <<s, d>> # <<args.start_date, args.days>>
    /\ args' = [args EXCEPT !.start_date = s, !.days = d]
    /\ res' = NoRun
    /\ UNCHANGED <<prepayments, scenarios, saved, rvo, ui>>

Next ==
    \/ Amortize
    \/ \E d \in PrepayDates, v \in PrepayValues : AddPrepayment(d, v)
    \/ \E n \in Names : SaveScenario(n)
    \/ \E s \in StartDates, d \in Horizons : Restart(s, d)

Spec == Init /\ [][Next]_vars

----------------------------------------------------------------------------
(* The rent-vs-own page: its inputs and the calls of get_rent_vs_own *)

RentStartDates == {13, 29}
Rents == {0, 26, 130, 260}
Maintenances == {0, 26}
Taxes == {0, 312}

RentArgSpace ==
    [start_date : RentStartDates, days : Horizons, price : Prices,
     deposit : Deposits, payment : Payments, int_rate : Rates,
     app_rate : Rates, frequency : Frequencies, re_fees : Fees]

RentInputs ==
    [monthly_rent : Rents, inv_rate : Rates, monthly_main : Maintenances,
     annual_tax : Taxes, build : Builds]

InitRent ==
    /\ args \in RentArgSpace
    /\ prepayments = None
    /\ scenarios = None
    /\ res = NoRun
    /\ saved = NoSave
    /\ rvo = NoCompare
    /\ ui = NoPage

(* plot_rent_vs_buy: a call of get_rent_vs_own on the current inputs *)
RentVsOwn(x) ==
    /\ ~rvo.called
    /\ rvo' = get_rent_vs_own(args, x)
    /\ UNCHANGED <<args, prepayments, scenarios, res, saved, ui>>

(* the payment frequency is changed in the drop-down *)
ChangeFrequency(f) ==
    /\ rvo.called
    /\ f # args.frequency
    /\ args' = [args EXCEPT !.frequency = f]
    /\ rvo' = NoCompare
    /\ UNCHANGED <<prepayments, scenarios, res, saved, ui>>

NextRent ==
    \/ \E x \in RentInputs : RentVsOwn(x)
    \/ \E f \in Frequencies : ChangeFrequency(f)

SpecRent == InitRent /\ [][NextRent]_vars

----------------------------------------------------------------------------
(* layout.py: the callback plot_amortization *)

(* the property that fired the callback (line 254); "." is the first run,  *)
(* when the page loads                                                     *)
PageLoad == "."
AddPrepayClick == "add-prepay.n_clicks"
ResetPrepayClick == "reset-prepay.n_clicks"
AddScenarioClick == "add-scenario.n_clicks"
ResetScenarioClick == "reset-scenario.n_clicks"
InputChange == "price.value"

(* lines 259-275: the prepayments the run goes on with *)
prepay_store_after(n_prepay, changed_id, prepay_date, prepay_value, prepay_store) ==
    LET prepay == [date |-> prepay_date, value |-> prepay_value]
        added == IF n_prepay >= 1
                 THEN IF prepay_store.isNone THEN Some(<<prepay>>)
                      ELSE Some(Append(prepay_store.val, prepay))
                 ELSE None
    IN  IF changed_id = ResetPrepayClick THEN None ELSE added

(* lines 277-280 *)
scenario_store_after(n_scenario, changed_id, scenario_store) ==
    IF n_scenario = 0 \/ changed_id = ResetScenarioClick THEN None
    ELSE scenario_store

(* lines 287-333: what the run returns once it has the schedule; an        *)
(* exception in the run leaves both stores as they were.  The figure and   *)
(* the summary are not modelled.                                           *)
outputs(run, changed_id, a, ps, ss, prepay_store, scenario_name, scenario_store) ==
    LET sv == save_scenario(run.df, scenario_name, ss)
        save == [called |-> TRUE, status |-> sv.status, name |-> scenario_name,
                 df |-> run.df, prior |-> ss, args |-> a]
    IN  IF run.status # "ok"
        THEN [raised |-> TRUE, prepay_store |-> prepay_store,
              scenario_store |-> scenario_store, run |-> run, save |-> NoSave]
        ELSE IF changed_id # AddScenarioClick
        THEN [raised |-> FALSE, prepay_store |-> ps, scenario_store |-> ss,
              run |-> run, save |-> NoSave]
        ELSE IF sv.status # "ok"
        THEN [raised |-> TRUE, prepay_store |-> prepay_store,
              scenario_store |-> scenario_store, run |-> run, save |-> save]
        ELSE [raised |-> FALSE, prepay_store |-> ps,
              scenario_store |-> Some(sv.store), run |-> run, save |-> save]

(* lines 282-285: the schedule for the stores the run goes on with *)
schedule(a, ps, ss, changed_id, prepay_store, scenario_name, scenario_store) ==
    outputs(get_amortization(a, ps, ss), changed_id, a, ps, ss, prepay_store,
            scenario_name, scenario_store)

(* lines 249-333: one run of the callback *)
plot_amortization(n_prepay, n_scenario, changed_id, a, prepay_value, prepay_date, prepay_store, scenario_name, scenario_store) ==
    schedule(a,
             prepay_store_after(n_prepay, changed_id, prepay_date,
                                prepay_value, prepay_store),
             scenario_store_after(n_scenario, changed_id, scenario_store),
             changed_id, prepay_store, scenario_name, scenario_store)

----------------------------------------------------------------------------
(* The mortgage page: the runs of the callback plot_amortization *)

(* the day the page is used (line 257) and the inputs it can be given *)
Today == 14

PageArgSpace ==
    {a \in ArgSpace : a.start_date = Today /\ a.days = 2 /\ a.int_rate = 0
                         /\ a.app_rate = 0 /\ a.re_fees = 0
                         /\ a.deposit = 1 * Percent
                         /\ a.payment = 1 * Percent
                         /\ a.frequency \in {"m", "b"}}

(* the prepay-date, prepay and scenario-name fields: a date of the         *)
(* schedule and one that is not                                            *)
PageDates == {Today - 1, Today}
PageValues == {1 * Percent}
PageNames == {"a"}

Entries(store) == IF store.isNone THEN 0 ELSE Len(store.val)

(* the stores as the page is created: data=[] (lines 145, 164) *)
InitPage ==
    /\ args \in PageArgSpace
    /\ prepayments = Some(<<>>)
    /\ scenarios = Some(<<>>)
    /\ res = NoRun
    /\ saved = NoSave
    /\ rvo = NoCompare
    /\ ui = NoPage

(* the page after a run of the callback that returned out *)
Commit(out, changed_id, n_prepay, n_scenario, a) ==
    /\ Entries(out.prepay_store) <= MaxEntries
    /\ args' = a
    /\ prepayments' = out.prepay_store
    /\ scenarios' = out.scenario_store
    /\ res' = out.run
    /\ saved' = IF out.save.called THEN out.save ELSE saved
    /\ ui' = [loaded |-> TRUE, n_prepay |-> n_prepay,
               n_scenario |-> n_scenario, changed_id |-> changed_id,
               raised |-> out.raised,
               gained |-> Entries(out.prepay_store) > Entries(prepayments),
               since_reset |->
                  IF changed_id = ResetPrepayClick THEN TRUE
                  ELSE IF changed_id = AddPrepayClick THEN FALSE
                  ELSE ui.since_reset]
    /\ UNCHANGED rvo

(* a run of the callback fired by changed_id, with the click counts and    *)
(* inputs it is given and the values d, v, n of the prepay-date, prepay    *)
(* and scenario-name fields                                                *)
Run(changed_id, n_prepay, n_scenario, a, d, v, n) ==
    Commit(plot_amortization(n_prepay, n_scenario, changed_id, a, v, d,
                             prepayments, n, scenarios),
           changed_id, n_prepay, n_scenario, a)

Load(d, v, n) ==
    /\ ~ui.loaded
    /\ Run(PageLoad, 0, 0, args, d, v, n)

AddPrepay(d, v, n) ==
    /\ ui.loaded /\ ui.n_prepay < MaxClicks
    /\ Run(AddPrepayClick, ui.n_prepay + 1, ui.n_scenario, args, d, v, n)

ResetPrepay(d, v, n) ==
    /\ ui.loaded
    /\ Run(ResetPrepayClick, ui.n_prepay, ui.n_scenario, args, d, v, n)

AddScenario(d, v, n) ==
    /\ ui.loaded /\ ui.n_scenario < MaxClicks
    /\ Run(AddScenarioClick, ui.n_prepay, ui.n_scenario + 1, args, d, v, n)

ResetScenario(d, v, n) ==
    /\ ui.loaded
    /\ Run(ResetScenarioClick, ui.n_prepay, ui.n_scenario, args, d, v, n)

ChangeInput(a, d, v, n) ==
    /\ ui.loaded /\ a # args
    /\ Run(InputChange, ui.n_prepay, ui.n_scenario, a, d, v, n)

NextPage ==
    \E d \in PageDates, v \in PageValues, n \in PageNames :
        \/ Load(d, v, n)
        \/ AddPrepay(d, v, n)
        \/ ResetPrepay(d, v, n)
        \/ AddScenario(d, v, n)
        \/ ResetScenario(d, v, n)
        \/ \E a \in PageArgSpace : ChangeInput(a, d, v, n)

SpecPage == InitPage /\ [][NextPage]_vars

----------------------------------------------------------------------------
(* Properties of the schedules that get_amortization returns *)

Ok == res.called /\ res.status = "ok"

Rows == 1..Len(res.df)

(* C1 as stated: in every schedule returned by get_amortization row 0 has   *)
(* startBalance = price - deposit and every later row starts at the         *)
(* endBalance of the row before it.                                         *)
C1_AsStated ==
    (Ok /\ res.df # <<>>) =>
        /\ res.df[1].start = args.price - args.deposit
        /\ \A i \in Rows : i > 1 => res.df[i].start = res.df[i - 1].end

(* C1 amended: every row after the first starts at the endBalance of the    *)
(* row before it, and the first row has startBalance = price - deposit      *)
(* whenever it is the row of the start date, which it always is when no     *)
(* scenarios are passed.                                                    *)
C1_StartBalance ==
    Ok =>
        /\ \A i \in Rows : i > 1 => res.df[i].start = res.df[i - 1].end
        /\ (res.df # <<>> /\ res.df[1].date = args.start_date)
              => res.df[1].start = args.price - args.deposit
        /\ (scenarios.isNone /\ res.df # <<>>)
              => res.df[1].date = args.start_date

C1_Witness ==
    /\ Ok /\ ~prepayments.isNone /\ Len(res.df) >= 3
    /\ res.df[1].date = args.start_date
    /\ res.df[2].start > 0 /\ res.df[3].start > 0
    /\ res.df[3].start # res.df[2].start

(* C2: no row has a negative endBalance, and when the loop reached the      *)
(* pay-off the row of the returned pay-off date has endBalance 0,           *)
(* interest 0 and payment equal to its startBalance.                        *)
C2_PaidToZero ==
    Ok =>
        /\ \A i \in Rows : res.df[i].end >= 0
        /\ res.paid =>
              \A i \in Rows :
                 res.df[i].date = res.end_date =>
                    /\ res.df[i].end = 0
                    /\ res.df[i].interest = 0
                    /\ res.df[i].payment = res.df[i].start

C2_Witness ==
    /\ Ok /\ res.paid
    /\ \E i \in Rows :
          /\ i > 1 /\ res.df[i].date = res.end_date
          /\ res.df[i].start > 0
          /\ res.df[i].start < args.payment

(* C3 as stated: when the balance reaches zero before the horizon ends the  *)
(* returned schedule has no row dated later than the pay-off date.          *)
C3_AsStated ==
    (Ok /\ res.paid) => \A i \in Rows : res.df[i].date <= res.end_date

(* C3 amended: the simulation stops at the pay-off row but the rows of the  *)
(* rest of the horizon stay in the returned schedule; each row dated later  *)
(* than the pay-off date has startBalance, payment, interest, endBalance,   *)
(* propertyValue and equity all 0.                                          *)
C3_RowsAfterPayoff ==
    (Ok /\ res.paid) =>
        \A i \in Rows :
           res.df[i].date > res.end_date =>
              /\ res.df[i].start = 0 /\ res.df[i].payment = 0
              /\ res.df[i].interest = 0 /\ res.df[i].end = 0
              /\ res.df[i].value = 0 /\ res.df[i].equity = 0

C3_Witness ==
    /\ Ok /\ res.paid /\ res.end_date > args.start_date
    /\ \E i \in Rows : res.df[i].date > res.end_date

(* C4: every row, the pay-off row included, has                             *)
(* equity = (propertyValue - endBalance) - propertyValue * feeRate on the   *)
(* values recorded in that row.                                             *)
C4_AsStated ==
    Ok =>
        \A i \in Rows :
           res.df[i].equity * Percent =
              (res.df[i].value - res.df[i].end) * Percent
                 - res.df[i].value * args.re_fees

----------------------------------------------------------------------------
(* Prepayments *)

OnARow(p) ==
    args.start_date <= p.date /\ p.date <= args.start_date + args.days

(* C5: a prepayment whose date matches no row does not make                 *)
(* get_amortization fail; the call returns the schedule and pay-off date    *)
(* of the run without that prepayment.                                      *)
C5_AsStated ==
    (res.called /\ ~prepayments.isNone
        /\ \E k \in 1..Len(prepayments.val) : ~OnARow(prepayments.val[k])) =>
        LET kept == SelectSeq(prepayments.val, OnARow)
            base == get_amortization(args, Some(kept), scenarios)
        IN  /\ res.status = "ok"
            /\ res.df = base.df
            /\ res.end_date = base.end_date

OnePrepayment ==
    /\ Ok /\ ~prepayments.isNone
    /\ Len(prepayments.val) = 1
    /\ prepayments.val[1].value > 0

(* C6 as stated: one prepayment of a positive amount on the date of a row   *)
(* makes endBalance strictly smaller than in the run without it at that     *)
(* row and at every later row, and the pay-off date is not later.           *)
C6_AsStated ==
    OnePrepayment =>
        LET base == get_amortization(args, None, scenarios)
        IN  /\ \A i \in Rows :
                  res.df[i].date >= prepayments.val[1].date
                     => res.df[i].end < base.df[i].end
            /\ res.end_date <= base.end_date

(* C6 amended: one prepayment of a positive amount on the date of a row     *)
(* makes endBalance no larger than in the run without it at every row,      *)
(* and strictly smaller at that row and at every later row at which the     *)
(* run without it still has a positive endBalance; the pay-off date is      *)
(* not later.                                                               *)
C6_PrepaymentReduces ==
    OnePrepayment =>
        LET base == get_amortization(args, None, scenarios)
        IN  /\ Len(base.df) = Len(res.df)
            /\ \A i \in Rows :
                  /\ res.df[i].date = base.df[i].date
                  /\ res.df[i].end <= base.df[i].end
                  /\ (res.df[i].date >= prepayments.val[1].date
                         /\ base.df[i].end > 0)
                        => res.df[i].end < base.df[i].end
            /\ res.end_date <= base.end_date

C6_Witness ==
    /\ OnePrepayment
    /\ LET base == get_amortization(args, None, scenarios)
       IN  /\ res.end_date < base.end_date
           /\ \E i \in Rows :
                 /\ res.df[i].date > prepayments.val[1].date
                 /\ res.df[i].end > 0
                 /\ res.df[i].end < base.df[i].end

----------------------------------------------------------------------------
(* Frequency codes *)

Recognised == {"m", "b", "a", "d"}

----------------------------------------------------------------------------
(* The scenario store *)

SavedColumn == "scenario-" \o saved.name

(* the store is the one the last save made from nothing, and the inputs     *)
(* are those of the schedule that was saved                                 *)
SavedAlone ==
    /\ saved.called /\ saved.status = "ok" /\ saved.prior.isNone
    /\ saved.args = args

(* C8: a schedule S saved under a name n with no prior scenarios, then      *)
(* get_amortization run on the same inputs with that store: the result      *)
(* has a row for every date of S and in every row the column of n equals    *)
(* the row's endBalance.                                                    *)
C8_RoundTrip ==
    (res.called /\ SavedAlone) =>
        /\ res.status = "ok"
        /\ \A k \in 1..Len(saved.df) :
              \E i \in Rows : res.df[i].date = saved.df[k].date
        /\ \A i \in Rows :
              /\ SavedColumn \in DOMAIN res.df[i].scen
              /\ res.df[i].scen[SavedColumn] = res.df[i].end

C8_Witness ==
    /\ res.called /\ SavedAlone /\ Len(saved.df) > 2
    /\ \E i \in Rows : res.df[i].end > 0 /\ res.df[i].end # res.df[i].start

(* C9: after any sequence of save_scenario calls get_amortization called    *)
(* with the resulting store returns a schedule, possibly empty, and does    *)
(* not raise.  Stated for the calls without prepayments, which cannot       *)
(* raise for the reason of C5.                                              *)
C9_AsStated ==
    (res.called /\ ~scenarios.isNone /\ prepayments.isNone) => res.status = "ok"

(* C10: a save under a name the store already holds succeeds, and the       *)
(* store then holds under that name the endBalance series of the schedule   *)
(* just saved.                                                              *)
C10_AsStated ==
    (saved.called /\ ~saved.prior.isNone
        /\ SavedColumn \in Columns(saved.prior.val)) =>
        /\ saved.status = "ok"
        /\ \A k \in 1..Len(scenarios.val) :
              \E i \in 1..Len(saved.df) :
                 /\ saved.df[i].date = scenarios.val[k].date
                 /\ scenarios.val[k].cols[SavedColumn] = saved.df[i].end

----------------------------------------------------------------------------
(* The columns of the schedule, continued *)

PayDates == get_periods(args.start_date, args.days, args.frequency).rng

(* C12: in every schedule returned by get_amortization the pay_period flag  *)
(* of a row is true exactly when the row's date is one of the payment       *)
(* dates generated for the chosen frequency.                                *)
C12_AsStated ==
    Ok => \A i \in Rows :
             res.df[i].pay_period <=> InRng(res.df[i].date, PayDates)

AppRate == PerDay(get_georeturn(args.app_rate, "d"))

(* C15 as stated: row 0 of the schedule returned by get_amortization has    *)
(* propertyValue = price, and every later row's propertyValue is the        *)
(* previous row's propertyValue times (1 + period appreciation rate).       *)
C15_AsStated ==
    (Ok /\ res.df # <<>>) =>
        /\ res.df[1].value = args.price
        /\ \A i \in Rows :
              i > 1 => res.df[i].value = res.df[i - 1].value * (1 + AppRate)

(* C15 amended: the row of the start date has propertyValue                 *)
(* price * (1 + period appreciation rate), the appreciation of the first    *)
(* day being applied before the row is written; every later row dated no    *)
(* later than the pay-off date has the previous row's propertyValue times   *)
(* (1 + period appreciation rate); every row dated later than the pay-off   *)
(* date has propertyValue 0.                                                *)
C15_Compounding ==
    Ok =>
        \A i \in Rows :
           /\ res.df[i].date = args.start_date
                 => res.df[i].value = args.price * (1 + AppRate)
           /\ (i > 1 /\ res.df[i].date <= res.end_date)
                 => res.df[i].value = res.df[i - 1].value * (1 + AppRate)
           /\ res.df[i].date > res.end_date => res.df[i].value = 0

C15_Witness ==
    /\ Ok /\ AppRate > 0 /\ Len(res.df) >= 3
    /\ res.df[1].date = args.start_date
    /\ res.df[1].value > args.price
    /\ res.df[3].date <= res.end_date
    /\ res.df[3].value > res.df[2].value

(* C16: every row up to and including the pay-off row, also when the        *)
(* pay-off row carries a prepayment, balances as a ledger:                  *)
(* endBalance = startBalance + interest - payment - prepayment.             *)
C16_AsStated ==
    Ok =>
        \A i \in Rows :
           res.df[i].date <= res.end_date =>
              res.df[i].end = res.df[i].start + res.df[i].interest
                                 - res.df[i].payment - res.df[i].prepayment

----------------------------------------------------------------------------
(* Properties of the schedules that get_rent_vs_own returns *)

RvoOk == rvo.called /\ rvo.status = "ok"

RvoRows == 1..Len(rvo.df)

(* the investment account is above the equity on row i *)
Above(i) == rvo.df[i].invest_end > rvo.df[i].equity

(* the rows at which the relative order differs from the row before *)
Changes == {i \in RvoRows : i > 1 /\ Above(i) # Above(i - 1)}

Flagged == {i \in RvoRows : rvo.df[i].cross_over = 1}

(* C11 as stated: crossOver is set on at most one row, the first row at     *)
(* which the investment balance and the equity change their relative        *)
(* order; no later row is flagged.                                          *)
C11_AsStated ==
    RvoOk =>
        /\ Cardinality(Flagged) <= 1
        /\ \A i \in Flagged : \A j \in Changes : i <= j

(* C11 amended: crossOver is not limited to one row.  When the relative     *)
(* order never changes no row is flagged; otherwise the first flagged row   *)
(* is the first row at which the order changes, and as many rows are        *)
(* flagged as there are changes of order, later changes included.           *)
C11_FlagPerChange ==
    RvoOk =>
        /\ Changes = {} => Flagged = {}
        /\ Changes # {} =>
              /\ Flagged # {}
              /\ \E i \in Flagged :
                    /\ \A j \in Flagged : i <= j
                    /\ i \in Changes
                    /\ \A j \in Changes : i <= j
        /\ Cardinality(Flagged) = Cardinality(Changes)

C11_Witness ==
    /\ RvoOk /\ args.frequency \in {"m", "b", "a"}
    /\ Cardinality(Flagged) >= 2
    /\ \E i \in RvoRows : i > 1 /\ i \notin Flagged

(* C13: crossOver is set on row i exactly when i > 0 and the truth value    *)
(* of investEnd > equity on row i differs from that on row i-1; row 0 is    *)
(* never flagged and every change of relative order flags one row.          *)
C13_CrossOverRule ==
    RvoOk =>
        \A i \in RvoRows :
           /\ rvo.df[i].cross_over \in {0, 1}
           /\ rvo.df[i].cross_over = 1 <=>
                 (i > 1 /\ (rvo.df[i].invest_end > rvo.df[i].equity)
                             # (rvo.df[i - 1].invest_end > rvo.df[i - 1].equity))

C13_Witness ==
    /\ RvoOk /\ Len(rvo.df) >= 3
    /\ rvo.df[1].cross_over = 0 /\ rvo.df[2].cross_over = 1
    /\ rvo.df[3].cross_over = 0
    /\ rvo.df[1].invest_end > rvo.df[1].equity
    /\ rvo.df[3].invest_end <= rvo.df[3].equity

Period ==
    PeriodAmounts(args.frequency, rvo.x.monthly_rent, rvo.x.monthly_main,
                  rvo.x.annual_tax)

InvRate == PerDay(get_georeturn(rvo.x.inv_rate, "d"))

(* C14: over the rows up to the pay-off date, row 0 has investStart =       *)
(* deposit and investEnd = deposit * (1 + r); every later row on a          *)
(* payment date has investEnd = (investStart + periodTax +                  *)
(* periodMaintenance + payment - periodRent) * (1 + r); every other later   *)
(* row has investEnd = investStart * (1 + r); and investStart of row i+1    *)
(* equals investEnd of row i.                                               *)
C14_AsStated ==
    (RvoOk /\ rvo.df # <<>>) =>
        /\ rvo.df[1].invest_start = args.deposit
        /\ rvo.df[1].invest_end = args.deposit * (1 + InvRate)
        /\ \A i \in RvoRows :
              i > 1 =>
                 /\ rvo.df[i].invest_start = rvo.df[i - 1].invest_end
                 /\ rvo.df[i].invest_end =
                       IF InRng(rvo.df[i].date, PayDates)
                       THEN (rvo.df[i].invest_start + Period.tax + Period.main
                                + args.payment - Period.rent) * (1 + InvRate)
                       ELSE rvo.df[i].invest_start * (1 + InvRate)

----------------------------------------------------------------------------
(* The prepay store of the mortgage page *)

(* C17: the prepay store gains an entry only in a run of the callback       *)
(* fired by the add-prepay button, and after reset-prepay has fired the     *)
(* store stays empty through every later run fired by another input until   *)
(* add-prepay is clicked again.                                             *)
C17_AsStated ==
    ui.loaded =>
        /\ ui.gained => ui.changed_id = AddPrepayClick
        /\ ui.since_reset => Entries(prepayments) = 0

====
